---------------------------- MODULE Spec2Model ----------------------------
(***************************************************************************)
(* A model of the mp4ameta atom core: the typed metadata value codec       *)
(* (src/src/atom/data.rs), the movie header atom (src/src/atom/mvhd.rs)    *)
(* and the track atom in its two traversal modes (src/src/atom/trak.rs).   *)
(*                                                                         *)
(* A stream is a record [bytes, pos]: the bytes of a Cursor or File and    *)
(* its position.  A byte is a number 0..255.  A String is a sequence of    *)
(* Unicode scalar values; its UTF-8 and UTF-16 forms are computed.         *)
(***************************************************************************)
EXTENDS Integers, Sequences, FiniteSets, TLC

VARIABLES
    pc,       \* the position of the running operation
    data,     \* the Data value handed to len / write_typed
    measured, \* what len() and is_empty() returned for data
    writer,   \* the Vec<u8> the codec writes to
    reader,   \* the stream read from: [bytes, pos]
    args,     \* the arguments of the call in progress
    loop,     \* the locals of the child loop of Trak: size, parsed_bytes, mdia
    visited,  \* the children the loop has gone over, in order
    result    \* what the call returned

vars == <<pc, data, measured, writer, reader, args, loop, visited, result>>

None == [kind |-> "None"]

---------------------------------------------------------------------------
(* Bounds of the model.                                                    *)

\* Longest byte vector or string (in characters) held by a Data value.
MaxLen == 3
\* Longest raw stream handed to Data::parse directly.
MaxRaw == 3

---------------------------------------------------------------------------
(* Sequences.                                                              *)

SeqsUpTo(S, n) == UNION {[1..k -> S] : k \in 0..n}

RECURSIVE Concat(_)
Concat(ss) == IF ss = <<>> THEN <<>> ELSE Head(ss) \o Concat(Tail(ss))

Take(s, n) == SubSeq(s, 1, n)
Drop(s, n) == SubSeq(s, n + 1, Len(s))

---------------------------------------------------------------------------
(* Unsigned integers wider than the model checker's: a number is the       *)
(* sequence of its base 256 digits, least significant first, with no       *)
(* leading zero digit (zero is the empty sequence).  A u64 has at most 8   *)
(* digits.                                                                 *)

RECURSIVE BnNorm(_)
BnNorm(a) ==
    IF a = <<>> THEN <<>>
    ELSE IF a[Len(a)] = 0 THEN BnNorm(Take(a, Len(a) - 1))
    ELSE a

RECURSIVE BnOfInt(_)
BnOfInt(n) == IF n = 0 THEN <<>> ELSE <<n % 256>> \o BnOfInt(n \div 256)

\* The value of a number below 2^31.
RECURSIVE BnToInt(_)
BnToInt(a) == IF a = <<>> THEN 0 ELSE Head(a) + 256 * BnToInt(Tail(a))

Digit0(a) == IF a = <<>> THEN 0 ELSE Head(a)
Digits1(a) == IF a = <<>> THEN <<>> ELSE Tail(a)

RECURSIVE BnAddC(_, _, _)
BnAddC(a, b, c) ==
    IF a = <<>> /\ b = <<>> THEN (IF c = 0 THEN <<>> ELSE <<c>>)
    ELSE LET sum == Digit0(a) + Digit0(b) + c IN
         <<sum % 256>> \o BnAddC(Digits1(a), Digits1(b), sum \div 256)

BnAdd(a, b) == BnNorm(BnAddC(a, b, 0))

\* a - b for a >= b.
RECURSIVE BnSubB(_, _, _)
BnSubB(a, b, borrow) ==
    IF a = <<>> THEN <<>>
    ELSE LET d == Head(a) - Digit0(b) - borrow IN
         IF d < 0 THEN <<d + 256>> \o BnSubB(Tail(a), Digits1(b), 1)
         ELSE <<d>> \o BnSubB(Tail(a), Digits1(b), 0)

BnSub(a, b) == BnNorm(BnSubB(a, b, 0))

RECURSIVE BnLtSameLen(_, _)
BnLtSameLen(a, b) ==
    IF a = <<>> THEN FALSE
    ELSE LET n == Len(a) IN
         IF a[n] # b[n] THEN a[n] < b[n]
         ELSE BnLtSameLen(Take(a, n - 1), Take(b, n - 1))

BnLt(a, b) ==
    LET x == BnNorm(a)
        y == BnNorm(b)
    IN IF Len(x) # Len(y) THEN Len(x) < Len(y) ELSE BnLtSameLen(x, y)

BnLe(a, b) == ~BnLt(b, a)

RECURSIVE BnMulDigit(_, _, _)
BnMulDigit(a, k, c) ==
    IF a = <<>> THEN BnOfInt(c)
    ELSE LET p == Head(a) * k + c IN
         <<p % 256>> \o BnMulDigit(Tail(a), k, p \div 256)

RECURSIVE BnMulR(_, _)
BnMulR(a, b) ==
    IF a = <<>> THEN <<>>
    ELSE BnAddC(BnMulDigit(b, Head(a), 0), <<0>> \o BnMulR(Tail(a), b), 0)

BnMul(a, b) == BnNorm(BnMulR(a, b))

\* The largest digit d in lo..hi with b * d <= r, by bisection.
RECURSIVE BnQuotDigit(_, _, _, _)
BnQuotDigit(lo, hi, r, b) ==
    IF lo = hi THEN lo
    ELSE LET mid == (lo + hi + 1) \div 2 IN
         IF BnLe(BnMulDigit(b, mid, 0), r)
         THEN BnQuotDigit(mid, hi, r, b)
         ELSE BnQuotDigit(lo, mid - 1, r, b)

\* One step of long division: prev is the quotient and the remainder of the
\* digits above digit.
BnDivStep(prev, digit, b) ==
    LET r2 == BnNorm(<<digit>> \o prev.r)
        d == BnQuotDigit(0, 255, r2, b)
    IN [q |-> BnNorm(<<d>> \o prev.q), r |-> BnSub(r2, BnMulDigit(b, d, 0))]

\* Long division, digit by digit from the most significant: the quotient
\* and the remainder of a divided by b, for b # 0.  (Each step is taken
\* over the value of the step before it.)
RECURSIVE BnDivMod(_, _)
BnDivMod(a, b) ==
    IF a = <<>> THEN [q |-> <<>>, r |-> <<>>]
    ELSE CHOOSE qr \in {BnDivStep(prev, Head(a), b) :
                            prev \in {BnDivMod(Tail(a), b)}} : TRUE

\* floor(a / b) for b # 0.
BnDiv(a, b) == BnDivMod(BnNorm(a), BnNorm(b)).q

\* Whether a number is a u64, and its low 64 bits.
FitsU64(a) == Len(BnNorm(a)) <= 8
WrapU64(a) == BnNorm(Take(a, IF Len(a) < 8 THEN Len(a) ELSE 8))

RECURSIVE Reverse(_)
Reverse(s) == IF s = <<>> THEN <<>> ELSE Reverse(Tail(s)) \o <<Head(s)>>

\* u32::from_be_bytes and u64::from_be_bytes as wide numbers.
from_be_bytes(b) == BnNorm(Reverse(b))

Zeros(n) == [i \in 1..n |-> 0]

\* u64::to_be_bytes
u64_to_be_bytes(a) == Zeros(8 - Len(BnNorm(a))) \o Reverse(BnNorm(a))

---------------------------------------------------------------------------
(* Well-known data type codes, data.rs lines 8-84.                         *)

RESERVED == 0
UTF8 == 1
UTF16 == 2
UTF8_SORT == 4
UTF16_SORT == 5
JPEG == 13
PNG == 14
BE_SIGNED == 21
BE_UNSIGNED == 22
BE_F32 == 23
BE_F64 == 24
BMP == 27
QT_META == 28
I8 == 65
BE_I64 == 74
AFFINE_TRANSFORM_F64 == 79

---------------------------------------------------------------------------
(* Text encodings of the standard library, as data.rs uses them.           *)

\* str::as_bytes of one char: its UTF-8 bytes.
Utf8OfChar(c) ==
    IF c < 128 THEN <<c>>
    ELSE IF c < 2048 THEN <<192 + (c \div 64), 128 + (c % 64)>>
    ELSE IF c < 65536 THEN
        <<224 + (c \div 4096), 128 + ((c \div 64) % 64), 128 + (c % 64)>>
    ELSE <<240 + (c \div 262144), 128 + ((c \div 4096) % 64),
           128 + ((c \div 64) % 64), 128 + (c % 64)>>

\* String::as_bytes: the UTF-8 bytes of a string.
as_bytes(s) == Concat([i \in 1..Len(s) |-> Utf8OfChar(s[i])])

IsCont(b) == b >= 128 /\ b <= 191

\* The number of bytes of the UTF-8 sequence that starts s, 0 when s does
\* not start with a valid one (overlong forms, surrogates and values above
\* U+10FFFF are invalid, as in core::str::from_utf8).
Utf8Width(s) ==
    LET b == s[1] IN
    IF b < 128 THEN 1
    ELSE IF b >= 194 /\ b <= 223 THEN
        IF Len(s) >= 2 /\ IsCont(s[2]) THEN 2 ELSE 0
    ELSE IF b >= 224 /\ b <= 239 THEN
        IF /\ Len(s) >= 3
           /\ IsCont(s[2]) /\ IsCont(s[3])
           /\ (b = 224 => s[2] >= 160)
           /\ (b = 237 => s[2] <= 159)
        THEN 3 ELSE 0
    ELSE IF b >= 240 /\ b <= 244 THEN
        IF /\ Len(s) >= 4
           /\ IsCont(s[2]) /\ IsCont(s[3]) /\ IsCont(s[4])
           /\ (b = 240 => s[2] >= 144)
           /\ (b = 244 => s[2] <= 143)
        THEN 4 ELSE 0
    ELSE 0

Utf8CharAt(s, w) ==
    CASE w = 1 -> s[1]
      [] w = 2 -> (s[1] - 192) * 64 + (s[2] - 128)
      [] w = 3 -> (s[1] - 224) * 4096 + (s[2] - 128) * 64 + (s[3] - 128)
      [] w = 4 -> (s[1] - 240) * 262144 + (s[2] - 128) * 4096
                  + (s[3] - 128) * 64 + (s[4] - 128)

\* String::from_utf8: [ok |-> TRUE, s |-> the string] or [ok |-> FALSE].
RECURSIVE from_utf8(_)
from_utf8(bytes) ==
    IF bytes = <<>> THEN [ok |-> TRUE, s |-> <<>>]
    ELSE LET w == Utf8Width(bytes) IN
         IF w = 0 THEN [ok |-> FALSE]
         ELSE LET rest == from_utf8(Drop(bytes, w)) IN
              IF rest.ok
              THEN [ok |-> TRUE, s |-> <<Utf8CharAt(bytes, w)>> \o rest.s]
              ELSE rest

\* char::encode_utf16: one code unit, or a surrogate pair above U+FFFF.
Utf16OfChar(c) ==
    IF c < 65536 THEN <<c>>
    ELSE <<55296 + ((c - 65536) \div 1024), 56320 + ((c - 65536) % 1024)>>

\* str::encode_utf16: the UTF-16 code units of a string.
encode_utf16(s) == Concat([i \in 1..Len(s) |-> Utf16OfChar(s[i])])

IsHighSurrogate(u) == u >= 55296 /\ u <= 56319
IsLowSurrogate(u) == u >= 56320 /\ u <= 57343

\* String::from_utf16: fails on an unpaired surrogate.
RECURSIVE from_utf16(_)
from_utf16(units) ==
    IF units = <<>> THEN [ok |-> TRUE, s |-> <<>>]
    ELSE LET u == units[1] IN
         IF IsLowSurrogate(u) THEN [ok |-> FALSE]
         ELSE IF IsHighSurrogate(u) THEN
             IF Len(units) >= 2 /\ IsLowSurrogate(units[2])
             THEN LET rest == from_utf16(Drop(units, 2)) IN
                  IF rest.ok
                  THEN [ok |-> TRUE,
                        s |-> <<65536 + (u - 55296) * 1024 + (units[2] - 56320)>>
                              \o rest.s]
                  ELSE rest
             ELSE [ok |-> FALSE]
         ELSE LET rest == from_utf16(Tail(units)) IN
              IF rest.ok THEN [ok |-> TRUE, s |-> <<u>> \o rest.s] ELSE rest

\* u16::to_be_bytes and u16::from_be_bytes.
u16_to_be_bytes(u) == <<u \div 256, u % 256>>
u16_from_be_bytes(b) == b[1] * 256 + b[2]

\* u32::to_be_bytes, and u32::from_be_bytes.
u32_to_be_bytes(u) ==
    <<u \div 16777216, (u \div 65536) % 256, (u \div 256) % 256, u % 256>>
u32_from_be_bytes(b) == b[1] * 16777216 + b[2] * 65536 + b[3] * 256 + b[4]

---------------------------------------------------------------------------
(* Results and streams.                                                    *)

Ok(v) == [kind |-> "Ok", value |-> v]
Err(e) == [kind |-> "Err", error |-> e]
IoError == [kind |-> "Io"]
StringDecode == [kind |-> "StringDecode"]
UnknownDataType(code) == [kind |-> "UnknownDataType", code |-> code]
UnknownVersion(v) == [kind |-> "UnknownVersion", version |-> v]

Stream(bytes) == [bytes |-> bytes, pos |-> 0]

\* Read::read_exact of n bytes: the bytes and the stream after them, or an
\* Io error with the stream left at its end.  The outcome is
\* [res |-> result, reader |-> the stream afterwards].
read_exact(r, n) ==
    IF r.pos + n <= Len(r.bytes)
    THEN [res |-> Ok(SubSeq(r.bytes, r.pos + 1, r.pos + n)),
          reader |-> [r EXCEPT !.pos = r.pos + n]]
    ELSE [res |-> Err(IoError),
          reader |-> [r EXCEPT !.pos = IF r.pos > Len(r.bytes) THEN r.pos
                                         ELSE Len(r.bytes)]]

read_u8_vec(r, len) == read_exact(r, len)

read_utf8(r, len) ==
    LET got == read_u8_vec(r, len) IN
    IF got.res.kind = "Err" THEN got
    ELSE LET s == from_utf8(got.res.value) IN
         [res |-> IF s.ok THEN Ok(s.s) ELSE Err(StringDecode),
          reader |-> got.reader]

\* chunks_exact(2): the whole pairs of buf, a trailing odd byte dropped.
chunks_exact2(buf) ==
    [i \in 1..(Len(buf) \div 2) |-> <<buf[2 * i - 1], buf[2 * i]>>]

read_utf16(r, len) ==
    LET got == read_exact(r, len) IN
    IF got.res.kind = "Err" THEN got
    ELSE LET chunks == chunks_exact2(got.res.value)
             units == [i \in 1..Len(chunks) |-> u16_from_be_bytes(chunks[i])]
             s == from_utf16(units)
         IN [res |-> IF s.ok THEN Ok(s.s) ELSE Err(StringDecode),
             reader |-> got.reader]

\* ReadData::read_u32 and read_u64: a big-endian integer, as a wide number.
read_u32(r) ==
    LET got == read_exact(r, 4) IN
    IF got.res.kind = "Err" THEN got
    ELSE [res |-> Ok(from_be_bytes(got.res.value)), reader |-> got.reader]

read_u64(r) ==
    LET got == read_exact(r, 8) IN
    IF got.res.kind = "Err" THEN got
    ELSE [res |-> Ok(from_be_bytes(got.res.value)), reader |-> got.reader]

\* Seek::seek(SeekFrom::Current(off)): the position moves by off, which may
\* put it past the end; a position before the start is an Io error.
seek_current(r, off) ==
    IF r.pos + off < 0
    THEN [res |-> Err(IoError), reader |-> r]
    ELSE [res |-> Ok(r.pos + off), reader |-> [r EXCEPT !.pos = r.pos + off]]

\* A thread that panics returns nothing to the caller.
Panic(msg) == [kind |-> "Panic", msg |-> msg]

\* u64 multiplication: with overflow checks (a debug build) an overflow
\* panics, without them (a release build) the product wraps.
u64_mul(a, b, checks) ==
    LET p == BnMul(a, b) IN
    IF FitsU64(p) THEN Ok(p)
    ELSE IF checks THEN Panic("attempt to multiply with overflow")
    ELSE Ok(WrapU64(p))

\* u64 division: dividing by zero panics in every build.
u64_div(a, b) ==
    IF BnNorm(b) = <<>> THEN Panic("attempt to divide by zero")
    ELSE Ok(BnDiv(a, b))

---------------------------------------------------------------------------
(* Data, data.rs lines 88-435.  A value is [tag, v]: v is a byte vector,   *)
(* or a string for the tags Utf8 and Utf16.                                *)

Reserved(v) == [tag |-> "Reserved", v |-> v]
Utf8(s) == [tag |-> "Utf8", v |-> s]
Utf16(s) == [tag |-> "Utf16", v |-> s]
Jpeg(v) == [tag |-> "Jpeg", v |-> v]
Png(v) == [tag |-> "Png", v |-> v]
BeSigned(v) == [tag |-> "BeSigned", v |-> v]
Bmp(v) == [tag |-> "Bmp", v |-> v]

ByteTags == {"Reserved", "Jpeg", "Png", "BeSigned", "Bmp"}
StringTags == {"Utf8", "Utf16"}

\* Data::len with Utf16 measured in bytes.
DataLen_Utf16Bytes(d) ==
    CASE d.tag = "Utf8" -> Len(as_bytes(d.v))
      [] d.tag = "Utf16" -> 2 * Len(encode_utf16(d.v))
      [] OTHER -> Len(d.v)

\* Data::len
DataLen(d) ==
    CASE d.tag = "Reserved" -> Len(d.v)
      [] d.tag = "Utf8" -> Len(as_bytes(d.v))
      [] d.tag = "Utf16" -> Len(encode_utf16(d.v))
      [] d.tag = "Jpeg" -> Len(d.v)
      [] d.tag = "Png" -> Len(d.v)
      [] d.tag = "BeSigned" -> Len(d.v)
      [] d.tag = "Bmp" -> Len(d.v)

\* Data::is_empty
is_empty(d) == DataLen(d) = 0

\* The type code write_typed picks for a value.
DataTypeOf(d) ==
    CASE d.tag = "Reserved" -> RESERVED
      [] d.tag = "Utf8" -> UTF8
      [] d.tag = "Utf16" -> UTF16
      [] d.tag = "Jpeg" -> JPEG
      [] d.tag = "Png" -> PNG
      [] d.tag = "BeSigned" -> BE_SIGNED
      [] d.tag = "Bmp" -> BMP

\* Data::write_raw with the UTF-16 code units written little-endian.
write_raw_LittleEndian(d) ==
    CASE d.tag = "Utf8" -> as_bytes(d.v)
      [] d.tag = "Utf16" ->
            LET units == encode_utf16(d.v) IN
            Concat([i \in 1..Len(units) |-> <<units[i] % 256, units[i] \div 256>>])
      [] OTHER -> d.v

\* Data::write_raw: the bytes appended to the writer.
write_raw(d) ==
    CASE d.tag = "Reserved" -> d.v
      [] d.tag = "Utf8" -> as_bytes(d.v)
      [] d.tag = "Utf16" ->
            LET units == encode_utf16(d.v) IN
            Concat([i \in 1..Len(units) |-> u16_to_be_bytes(units[i])])
      [] d.tag = "Jpeg" -> d.v
      [] d.tag = "Png" -> d.v
      [] d.tag = "BeSigned" -> d.v
      [] d.tag = "Bmp" -> d.v

\* Data::write_typed: type code, 4 byte locale indicator, raw data.
write_typed(d) ==
    u32_to_be_bytes(DataTypeOf(d)) \o <<0, 0, 0, 0>> \o write_raw(d)

\* Wraps a read's outcome into a Data value of the given constructor tag.
Wrap(tag, got) ==
    [res |-> IF got.res.kind = "Ok"
             THEN Ok([tag |-> tag, v |-> got.res.value])
             ELSE got.res,
     reader |-> got.reader]

\* Data::parse that reads a value of an unknown type as Reserved.
DataParse_UnknownAsReserved(r, datatype, len) ==
    CASE datatype = UTF8 -> Wrap("Utf8", read_utf8(r, len))
      [] datatype = UTF16 -> Wrap("Utf16", read_utf16(r, len))
      [] datatype = JPEG -> Wrap("Jpeg", read_u8_vec(r, len))
      [] datatype = PNG -> Wrap("Png", read_u8_vec(r, len))
      [] datatype = BE_SIGNED -> Wrap("BeSigned", read_u8_vec(r, len))
      [] datatype = BMP -> Wrap("Bmp", read_u8_vec(r, len))
      [] OTHER -> Wrap("Reserved", read_u8_vec(r, len))

\* Data::parse
DataParse(r, datatype, len) ==
    CASE datatype = RESERVED -> Wrap("Reserved", read_u8_vec(r, len))
      [] datatype = UTF8 -> Wrap("Utf8", read_utf8(r, len))
      [] datatype = UTF16 -> Wrap("Utf16", read_utf16(r, len))
      [] datatype = JPEG -> Wrap("Jpeg", read_u8_vec(r, len))
      [] datatype = PNG -> Wrap("Png", read_u8_vec(r, len))
      [] datatype = BE_SIGNED -> Wrap("BeSigned", read_u8_vec(r, len))
      [] datatype = BMP -> Wrap("Bmp", read_u8_vec(r, len))
      [] OTHER -> [res |-> Err(UnknownDataType(datatype)), reader |-> r]

---------------------------------------------------------------------------
(* The Data codec as a state machine: a value is measured, written with    *)
(* write_typed, its 8 byte prefix read back, and the rest parsed; or a raw *)
(* stream is parsed with a type code and length of the caller's choice.    *)

\* Characters of 1, 2, 3 and 4 UTF-8 bytes; the last needs a surrogate pair.
Chars == {65, 233, 8364, 128512}
\* Bytes held by the byte kinds.
DataBytes == {0, 65, 255}
\* Bytes of raw streams: ASCII, a UTF-8 lead byte and its continuation, and
\* the high byte of a high surrogate.
RawBytes == {65, 195, 169, 216}

KnownCodes == {RESERVED, UTF8, UTF16, JPEG, PNG, BE_SIGNED, BMP}
UnknownCodes ==
    {UTF8_SORT, UTF16_SORT, BE_UNSIGNED, BE_F32, BE_F64, QT_META, I8, 999}

DataValues ==
    {[tag |-> t, v |-> v] : t \in ByteTags, v \in SeqsUpTo(DataBytes, MaxLen)}
    \cup {[tag |-> t, v |-> s] : t \in StringTags, s \in SeqsUpTo(Chars, MaxLen)}

NoData == [tag |-> "None", v |-> <<>>]

InitData ==
    /\ measured = None
    /\ loop = None
    /\ visited = <<>>
    /\ writer = <<>>
    /\ result = None
    /\ \/ /\ pc = "data"
          /\ data \in DataValues
          /\ reader = Stream(<<>>)
          /\ args = None
       \/ /\ pc = "raw"
          /\ data = NoData
          /\ \E bytes \in SeqsUpTo(RawBytes, MaxRaw) :
             \E start \in 0..Len(bytes) :
                reader = [bytes |-> bytes, pos |-> start]
          /\ \E code \in KnownCodes \cup UnknownCodes :
             \E len \in 0..(MaxRaw + 1) :
                args = [kind |-> "parse", datatype |-> code, len |-> len,
                        start |-> reader.pos]

\* data.len() and data.is_empty()
Measure ==
    /\ pc = "data"
    /\ measured' = [kind |-> "Measured", len |-> DataLen(data),
                    empty |-> is_empty(data)]
    /\ pc' = "measured"
    /\ UNCHANGED <<data, writer, reader, args, loop, visited, result>>

\* data.write_typed(&mut writer)
WriteTyped ==
    /\ pc = "measured"
    /\ writer' = writer \o write_typed(data)
    /\ pc' = "written"
    /\ UNCHANGED <<data, measured, reader, args, loop, visited, result>>

\* The reader of a metadata value: the type code and the locale are read
\* with read_u32, and what is left of the written bytes is the payload.
ReadPrefix ==
    /\ pc = "written"
    /\ LET code == read_exact(Stream(writer), 4)
           locale == read_exact(code.reader, 4)
       IN /\ code.res.kind = "Ok" /\ locale.res.kind = "Ok"
          /\ reader' = locale.reader
          /\ args' = [kind |-> "parse",
                      datatype |-> u32_from_be_bytes(code.res.value),
                      len |-> Len(writer) - locale.reader.pos,
                      start |-> locale.reader.pos]
    /\ pc' = "prefix"
    /\ UNCHANGED <<data, measured, writer, loop, visited, result>>

\* Data::parse(&mut reader, datatype, len) on the written bytes.
ParseWritten ==
    /\ pc = "prefix"
    /\ LET got == DataParse(reader, args.datatype, args.len)
       IN /\ result' = got.res
          /\ reader' = got.reader
    /\ pc' = "parsed"
    /\ UNCHANGED <<data, measured, writer, args, loop, visited>>

\* Data::parse(&mut reader, datatype, len) on a raw stream.
ParseRaw ==
    /\ pc = "raw"
    /\ LET got == DataParse(reader, args.datatype, args.len)
       IN /\ result' = got.res
          /\ reader' = got.reader
    /\ pc' = "rawparsed"
    /\ UNCHANGED <<data, measured, writer, args, loop, visited>>

NextData == Measure \/ WriteTyped \/ ReadPrefix \/ ParseWritten \/ ParseRaw

SpecData == InitData /\ [][NextData]_vars

---------------------------------------------------------------------------
(* Claims about the Data codec.                                            *)

\* C1: a value written with write_typed and parsed back from the bytes after
\* the 8 byte prefix, with the type code that was written and the number of
\* payload bytes as len, is the value that was written, whatever its kind;
\* the parse consumes the payload exactly.
C1_RoundTrip ==
    pc = "parsed" =>
        /\ result = Ok(data)
        /\ reader.pos = Len(writer)
        /\ args.start = 8

\* A Utf16 value with a character outside the basic plane was written as a
\* surrogate pair and parsed back.
C1_Witness ==
    /\ pc = "parsed"
    /\ data.tag = "Utf16"
    /\ \E i \in 1..Len(data.v) : data.v[i] >= 65536
    /\ Len(data.v) >= 2
    /\ result.kind = "Ok"
    /\ Len(writer) = 8 + 2 * Len(encode_utf16(data.v))

\* C5: Data::parse with a type code outside {0, 1, 2, 13, 14, 21, 27} fails
\* with UnknownDataType carrying that code and leaves the stream position
\* where it was.
C5_UnknownDataType ==
    (pc = "rawparsed" /\ args.datatype \notin {0, 1, 2, 13, 14, 21, 27}) =>
        /\ result = Err(UnknownDataType(args.datatype))
        /\ reader.pos = args.start

\* Type code 999 was parsed over a stream that held the len bytes asked for.
C5_Witness ==
    /\ pc = "rawparsed"
    /\ args.datatype = 999
    /\ args.len > 0
    /\ args.start + args.len <= Len(reader.bytes)
    /\ result.kind = "Err"

\* The number of UTF-16 code units of a string: one per character, two for
\* a character above U+FFFF.
CodeUnits(s) == Len(s) + Cardinality({i \in 1..Len(s) : s[i] >= 65536})

C10_LenIsRawByteCount ==
    pc \in {"written", "prefix", "parsed"} =>
        measured.len = Len(writer) - 8

---------------------------------------------------------------------------
(* The movie header atom, mvhd.rs.                                         *)

NANOS_PER_SEC == 1000000000

\* parse_full_head: the version byte and the three flag bytes.
parse_full_head(r) ==
    LET v == read_exact(r, 1) IN
    IF v.res.kind = "Err" THEN v
    ELSE LET f == read_exact(v.reader, 3) IN
         IF f.res.kind = "Err" THEN f
         ELSE [res |-> Ok([version |-> v.res.value[1], flags |-> f.res.value]),
               reader |-> f.reader]

\* seek_to_end: the stream is put at the end of the atom's content.
seek_to_end(r, start, len) ==
    [res |-> Ok(start + len), reader |-> [r EXCEPT !.pos = start + len]]

\* duration * 1_000_000_000 / timescale in u64, lines 34 and 49.
MvhdNanos(duration, timescale, checks) ==
    LET p == u64_mul(duration, BnOfInt(NANOS_PER_SEC), checks) IN
    IF p.kind = "Panic" THEN p ELSE u64_div(p.value, timescale)

\* The fields of a version 0 or 1 header: times bytes of creation and
\* modification time are skipped, the time scale is 4 bytes and the duration
\* 4 (version 0) or 8 (version 1) bytes.
MvhdFields(r, times, wide, checks) ==
    LET skipped == seek_current(r, times) IN
    IF skipped.res.kind = "Err" THEN skipped
    ELSE LET timescale == read_u32(skipped.reader) IN
         IF timescale.res.kind = "Err" THEN timescale
         ELSE LET duration == IF wide THEN read_u64(timescale.reader)
                              ELSE read_u32(timescale.reader)
              IN IF duration.res.kind = "Err" THEN duration
                 ELSE [res |-> MvhdNanos(duration.res.value,
                                         timescale.res.value, checks),
                       reader |-> duration.reader]

\* The match on the version with every version above 0 read as version 1.
MvhdVersion_AnyAsV1(r, version, checks) ==
    IF version = 0 THEN MvhdFields(r, 8, FALSE, checks)
    ELSE MvhdFields(r, 16, TRUE, checks)

\* The match on the version, lines 20-57.
MvhdVersion(r, version, checks) ==
    CASE version = 0 -> MvhdFields(r, 8, FALSE, checks)
      [] version = 1 -> MvhdFields(r, 16, TRUE, checks)
      [] OTHER -> [res |-> Err(UnknownVersion(version)), reader |-> r]

\* Mvhd::parse_atom(reader, len); checks says whether the build checks
\* arithmetic overflow.
MvhdParseAtom(r, len, checks) ==
    LET start == r.pos
        head == parse_full_head(r)
    IN IF head.res.kind = "Err" THEN head
       ELSE LET body == MvhdVersion(head.reader, head.res.value.version, checks)
            IN IF body.res.kind # "Ok" THEN body
               ELSE LET end == seek_to_end(body.reader, start, len) IN
                    [res |-> Ok([duration |-> body.res.value]),
                     reader |-> end.reader]

---------------------------------------------------------------------------
(* The movie header as a state machine: a header is laid out from its      *)
(* fields, the stream may end early, and parse_atom is called on it.       *)

\* Bytes of the atom that follow the duration field.
MvhdRest == 2
\* Bytes of the stream that precede the atom's content.
MvhdLead == 1

Versions == {0, 1, 2, 255}
\* Time scales, as the 4 bytes of the field: 0, 1, 1000, 48000, 2^32 - 1.
TimescaleBytes ==
    {<<0, 0, 0, 0>>, <<0, 0, 0, 1>>, <<0, 0, 3, 232>>, <<0, 0, 187, 128>>,
     <<255, 255, 255, 255>>}
\* Durations of 32 bits: 0, 5000, 48000, 2^32 - 1.
Duration32Bytes ==
    {<<0, 0, 0, 0>>, <<0, 0, 19, 136>>, <<0, 0, 187, 128>>,
     <<255, 255, 255, 255>>}
\* Durations of 64 bits: the 32 bit ones, 18446744073 (the largest whose
\* nanoseconds at time scale 1 fit 64 bits), 18446744074 and 2^64 - 1.
Duration64Bytes ==
    {<<0, 0, 0, 0>> \o d : d \in Duration32Bytes}
    \cup {<<0, 0, 0, 4, 75, 130, 250, 9>>, <<0, 0, 0, 4, 75, 130, 250, 10>>,
          <<255, 255, 255, 255, 255, 255, 255, 255>>}

\* The content of a movie header atom; a version other than 1 is laid out
\* as version 0.
MvhdContent(version, timescale, duration) ==
    <<version, 0, 0, 0>> \o Zeros(IF version = 1 THEN 16 ELSE 8)
        \o timescale \o duration \o Zeros(MvhdRest)

InitMvhd ==
    /\ pc = "mvhd"
    /\ data = NoData
    /\ measured = None
    /\ writer = <<>>
    /\ loop = None
    /\ visited = <<>>
    /\ result = None
    /\ \E version \in Versions, timescale \in TimescaleBytes :
       \E duration \in (IF version = 1 THEN Duration64Bytes ELSE Duration32Bytes) :
       \E start \in 0..MvhdLead, checks \in BOOLEAN :
          LET content == MvhdContent(version, timescale, duration) IN
          \E cut \in 0..Len(content) :
             /\ reader = [bytes |-> Zeros(start) \o Take(content, cut),
                          pos |-> start]
             /\ args = [kind |-> "mvhd", version |-> version,
                        timescale |-> from_be_bytes(timescale),
                        ticks |-> from_be_bytes(duration),
                        start |-> start, len |-> Len(content),
                        cut |-> cut, checks |-> checks]

\* Mvhd::parse_atom(&mut reader, len)
MvhdParse ==
    /\ pc = "mvhd"
    /\ LET got == MvhdParseAtom(reader, args.len, args.checks)
       IN /\ result' = got.res
          /\ reader' = got.reader
    /\ pc' = "mvhd_done"
    /\ UNCHANGED <<data, measured, writer, args, loop, visited>>

NextMvhd == MvhdParse

SpecMvhd == InitMvhd /\ [][NextMvhd]_vars

---------------------------------------------------------------------------
(* Claims about the movie header.                                          *)

\* The stream holds the whole version, time scale and duration fields.
MvhdFieldsPresent == args.cut >= args.len - MvhdRest

\* C6: for a version 0 or 1 header with a nonzero time scale, parse_atom
\* returns a duration of floor(ticks * 1_000_000_000 / timescale)
\* nanoseconds, the product taken without wrap-around or fault.
C6_VersionedDuration ==
    (/\ pc = "mvhd_done"
     /\ args.version \in {0, 1}
     /\ args.timescale # <<>>
     /\ MvhdFieldsPresent) =>
        result = Ok([duration |->
                        BnDiv(BnMul(args.ticks, BnOfInt(1000000000)),
                              args.timescale)])

\* C7: parse_atom ends by returning an Mvhd or an Error of the taxonomy,
\* whatever version, time scale and duration the stream holds.
C7_ErrorsAreValues ==
    pc = "mvhd_done" =>
        \/ result.kind = "Ok"
        \/ result.kind = "Err" /\ result.error.kind \in {"Io", "UnknownVersion"}

\* C8: a header whose version byte is neither 0 nor 1 fails with
\* UnknownVersion carrying that byte; nothing is returned and nothing past
\* the version and flags is read or skipped.
C8_UnknownVersion ==
    (pc = "mvhd_done" /\ args.version \notin {0, 1} /\ args.cut >= 4) =>
        /\ result = Err(UnknownVersion(args.version))
        /\ reader.pos = args.start + 4

\* A version 2 header with all its fields in the stream was parsed.
C8_Witness ==
    /\ pc = "mvhd_done"
    /\ args.version = 2
    /\ MvhdFieldsPresent
    /\ args.timescale # <<>>
    /\ result.kind = "Err"

---------------------------------------------------------------------------
(* Atom heads and sizes.  A size is [ext, len]: whether the head carries   *)
(* the 64 bit extended size, and the length of the whole atom as a wide    *)
(* number.  A head is a size and a fourcc.                                 *)

\* A position beyond every stream of the model: a seek further than
\* SeekExact bytes ahead lands there.
FarPos == 1000000

MEDIA == <<109, 100, 105, 97>>
TRACK == <<116, 114, 97, 107>>
MEDIA_HEADER == <<109, 100, 104, 100>>
FREE == <<102, 114, 101, 101>>
USER_DATA == <<117, 100, 116, 97>>

TwoTo64 == <<0, 0, 0, 0, 0, 0, 0, 0, 1>>

\* u64 addition and subtraction: with overflow checks an overflow panics,
\* without them the result wraps.
u64_add(a, b, checks) ==
    LET sum == BnAdd(a, b) IN
    IF FitsU64(sum) THEN Ok(sum)
    ELSE IF checks THEN Panic("attempt to add with overflow")
    ELSE Ok(WrapU64(sum))

u64_sub(a, b, checks) ==
    IF BnLe(b, a) THEN Ok(BnSub(a, b))
    ELSE IF checks THEN Panic("attempt to subtract with overflow")
    ELSE Ok(BnSub(BnAdd(a, TwoTo64), b))

\* x as i64: a u64 of 2^63 or more is the negative number x - 2^64.
as_i64(x) ==
    LET n == BnNorm(x) IN
    IF Len(n) = 8 /\ n[8] >= 128
    THEN [neg |-> TRUE, mag |-> BnSub(TwoTo64, n)]
    ELSE [neg |-> FALSE, mag |-> n]

\* Whether a wide number is small enough to move a position by exactly.
SeekExact(n) == Len(BnNorm(n)) <= 2

\* pos + n for a wide number n: exact, or FarPos.
PosPlus(pos, n) ==
    IF SeekExact(n) /\ pos < FarPos THEN pos + BnToInt(BnNorm(n)) ELSE FarPos

\* Seek::seek(SeekFrom::Current(off)) for an i64 off.
seek_current_i64(r, off) ==
    IF off.neg
    THEN IF SeekExact(off.mag) /\ r.pos < FarPos
         THEN seek_current(r, 0 - BnToInt(off.mag))
         ELSE [res |-> Err(IoError), reader |-> r]
    ELSE [res |-> Ok(PosPlus(r.pos, off.mag)),
          reader |-> [r EXCEPT !.pos = PosPlus(r.pos, off.mag)]]

\* Seek::seek(SeekFrom::End(0)) and Seek::seek(SeekFrom::Start(n)): the new
\* position is returned.
seek_end(r) ==
    [res |-> Ok(Len(r.bytes)), reader |-> [r EXCEPT !.pos = Len(r.bytes)]]
seek_start(r, n) == [res |-> Ok(n), reader |-> [r EXCEPT !.pos = n]]

\* remaining_stream_len without the seek back to the starting position.
remaining_stream_len_NoSeekBack(r, checks) ==
    [res |-> u64_sub(BnOfInt(Len(r.bytes)), BnOfInt(r.pos), checks),
     reader |-> seek_end(r).reader]

\* remaining_stream_len, data.rs lines 496-504: the position is read, the
\* stream sought to its end, the difference taken and the position sought
\* back.
remaining_stream_len(r, checks) ==
    CHOOSE out \in {
        CHOOSE measured_len \in {
            IF len.kind = "Panic"
            THEN [res |-> len, reader |-> at_end.reader]
            ELSE [res |-> len,
                  reader |-> seek_start(at_end.reader, here.res.value).reader]
          : len \in {u64_sub(BnOfInt(at_end.res.value),
                             BnOfInt(here.res.value), checks)}} : TRUE
      : here \in {seek_current(r, 0)}, at_end \in {seek_end(r)}} : TRUE

\* Size::head_len and Size::content_len, Head::len and Head::content_len.
head_len(size) == IF size.ext THEN 16 ELSE 8
content_len(size) == BnSub(size.len, BnOfInt(head_len(size)))
NewHead(ext, len, fourcc) ==
    [size |-> [ext |-> ext, len |-> len], fourcc |-> fourcc]

\* A declared size below the header length breaks the invariant of Head.
InvalidHead == [kind |-> "InvalidHead"]

\* parse_head: 4 bytes of size and 4 bytes of type code; size 1 is followed
\* by the 8 byte extended size, size 0 is an atom that runs to the end of
\* the stream.
parse_head(r, checks) ==
    CHOOSE out \in {
        IF len.res.kind = "Err" THEN len
        ELSE CHOOSE named \in {
            IF fourcc.res.kind = "Err" THEN fourcc
            ELSE IF len.res.value = <<1>> THEN
                CHOOSE wide \in {
                    IF ext.res.kind = "Err" THEN ext
                    ELSE IF BnLt(ext.res.value, BnOfInt(16))
                    THEN [res |-> Err(InvalidHead), reader |-> ext.reader]
                    ELSE [res |-> Ok(NewHead(TRUE, ext.res.value,
                                             fourcc.res.value)),
                          reader |-> ext.reader]
                  : ext \in {read_u64(fourcc.reader)}} : TRUE
            ELSE IF len.res.value = <<>> THEN
                CHOOSE open \in {
                    IF rest.res.kind = "Panic" THEN rest
                    ELSE [res |-> Ok(NewHead(FALSE,
                                             BnAdd(rest.res.value, BnOfInt(8)),
                                             fourcc.res.value)),
                          reader |-> rest.reader]
                  : rest \in {remaining_stream_len(fourcc.reader, checks)}} : TRUE
            ELSE IF BnLt(len.res.value, BnOfInt(8))
            THEN [res |-> Err(InvalidHead), reader |-> fourcc.reader]
            ELSE [res |-> Ok(NewHead(FALSE, len.res.value, fourcc.res.value)),
                  reader |-> fourcc.reader]
          : fourcc \in {read_exact(len.reader, 4)}} : TRUE
      : len \in {read_u32(r)}} : TRUE

\* find_bounds: the byte range of the atom whose content the stream is at.
find_bounds(r, size) ==
    [start |-> r.pos - head_len(size), content_start |-> r.pos,
     content_len |-> content_len(size)]

\* The stream put at start + len, the end of an atom's content.
seek_to_end_wide(r, start, len) ==
    [res |-> Ok(PosPlus(start, len)),
     reader |-> [r EXCEPT !.pos = PosPlus(start, len)]]

Some(v) == [kind |-> "Some", value |-> v]

---------------------------------------------------------------------------
(* The media atom, a child of the track atom: its children are gone over   *)
(* and skipped, and the stream is then put at the end of its content.      *)

\* One turn of the child loop of the media atom.
MdiaStep(r, parsed_bytes, checks) ==
    CHOOSE out \in {
        IF head.res.kind # "Ok"
        THEN [res |-> head.res, reader |-> head.reader,
              parsed_bytes |-> parsed_bytes]
        ELSE CHOOSE after \in {
            IF skipped.res.kind # "Ok"
            THEN [res |-> skipped.res, reader |-> skipped.reader,
                  parsed_bytes |-> parsed_bytes]
            ELSE IF sum.kind # "Ok"
            THEN [res |-> sum, reader |-> skipped.reader,
                  parsed_bytes |-> parsed_bytes]
            ELSE [res |-> Ok([fourcc |-> head.res.value.fourcc,
                              start |-> r.pos,
                              size |-> head.res.value.size]),
                  reader |-> skipped.reader, parsed_bytes |-> sum.value]
          : skipped \in {seek_current_i64(head.reader,
                            as_i64(content_len(head.res.value.size)))},
            sum \in {u64_add(parsed_bytes, head.res.value.size.len, checks)}}
            : TRUE
      : head \in {parse_head(r, checks)}} : TRUE

\* The child loop of the media atom: the children seen, or the first error.
RECURSIVE MdiaLoop(_, _, _, _, _)
MdiaLoop(r, parsed_bytes, limit, seen, checks) ==
    IF ~BnLt(parsed_bytes, limit) THEN [res |-> Ok(seen), reader |-> r]
    ELSE CHOOSE out \in
            {IF step.res.kind # "Ok"
             THEN [res |-> step.res, reader |-> step.reader]
             ELSE MdiaLoop(step.reader, step.parsed_bytes, limit,
                           Append(seen, step.res.value), checks) :
                step \in {MdiaStep(r, parsed_bytes, checks)}} : TRUE

\* Mdia::parse(reader, size)
MdiaParse(r, size, checks) ==
    CHOOSE parsed \in {
        IF out.res.kind # "Ok" THEN out
        ELSE [res |-> Ok([atom |-> "mdia",
                          children |-> [i \in 1..Len(out.res.value) |->
                                            out.res.value[i].fourcc]]),
              reader |-> seek_to_end_wide(out.reader, r.pos,
                                          content_len(size)).reader]
      : out \in {MdiaLoop(r, <<>>, content_len(size), <<>>, checks)}} : TRUE

\* Mdia::find(reader, size)
MdiaFind(r, size, checks) ==
    CHOOSE found \in {
        IF out.res.kind # "Ok" THEN out
        ELSE [res |-> Ok([bounds |-> find_bounds(r, size),
                          children |-> out.res.value]),
              reader |-> seek_to_end_wide(out.reader, r.pos,
                                          content_len(size)).reader]
      : out \in {MdiaLoop(r, <<>>, content_len(size), <<>>, checks)}} : TRUE

---------------------------------------------------------------------------
(* The track atom, trak.rs.                                                *)

\* The skip of a child that is not MEDIA by the length of the whole atom.
TrakSkip_WholeAtom(r, head) == seek_current_i64(r, as_i64(head.size.len))

\* reader.seek(SeekFrom::Current(head.content_len() as i64)), lines 23, 53.
TrakSkip(r, head) == seek_current_i64(r, as_i64(content_len(head.size)))

\* The match on the fourcc in parse_atom, lines 20-25: the new value of
\* trak.mdia and the stream after the child.
ParseChild(r, head, mdia, checks) ==
    IF head.fourcc = MEDIA
    THEN CHOOSE out \in {
            IF parsed.res.kind # "Ok" THEN parsed
            ELSE [res |-> Ok(Some(parsed.res.value)), reader |-> parsed.reader]
          : parsed \in {MdiaParse(r, head.size, checks)}} : TRUE
    ELSE CHOOSE out \in {
            IF skipped.res.kind # "Ok" THEN skipped
            ELSE [res |-> Ok(mdia), reader |-> skipped.reader]
          : skipped \in {TrakSkip(r, head)}} : TRUE

\* find_atom with a media child skipped like any other child.
FindChild_MediaSkipped(r, head, mdia, checks) ==
    CHOOSE out \in {
        IF skipped.res.kind # "Ok" THEN skipped
        ELSE [res |-> Ok(mdia), reader |-> skipped.reader]
      : skipped \in {TrakSkip(r, head)}} : TRUE

\* The match on the fourcc in find_atom, lines 50-55.
FindChild(r, head, mdia, checks) ==
    IF head.fourcc = MEDIA
    THEN CHOOSE out \in {
            IF found.res.kind # "Ok" THEN found
            ELSE [res |-> Ok(Some(found.res.value)), reader |-> found.reader]
          : found \in {MdiaFind(r, head.size, checks)}} : TRUE
    ELSE CHOOSE out \in {
            IF skipped.res.kind # "Ok" THEN skipped
            ELSE [res |-> Ok(mdia), reader |-> skipped.reader]
          : skipped \in {TrakSkip(r, head)}} : TRUE

\* One turn of the while loop of parse_atom, lines 18-27: the locals after
\* it and the child it went over, or the error it returns.
ParseIteration(r, locals, checks) ==
    CHOOSE out \in {
        IF head.res.kind # "Ok" THEN head
        ELSE CHOOSE after \in {
            IF child.res.kind # "Ok" THEN child
            ELSE IF sum.kind # "Ok" THEN [res |-> sum, reader |-> child.reader]
            ELSE [res |-> Ok([locals |-> [locals EXCEPT
                                            !.parsed_bytes = sum.value,
                                            !.mdia = child.res.value],
                              child |-> [start |-> r.pos,
                                         fourcc |-> head.res.value.fourcc,
                                         size |-> head.res.value.size,
                                         end |-> child.reader.pos]]),
                  reader |-> child.reader]
          : child \in {ParseChild(head.reader, head.res.value, locals.mdia,
                                   checks)},
            sum \in {u64_add(locals.parsed_bytes, head.res.value.size.len,
                             checks)}} : TRUE
      : head \in {parse_head(r, checks)}} : TRUE

\* One turn of the while loop of find_atom, lines 48-57.
FindIteration(r, locals, checks) ==
    CHOOSE out \in {
        IF head.res.kind # "Ok" THEN head
        ELSE CHOOSE after \in {
            IF child.res.kind # "Ok" THEN child
            ELSE IF sum.kind # "Ok" THEN [res |-> sum, reader |-> child.reader]
            ELSE [res |-> Ok([locals |-> [locals EXCEPT
                                            !.parsed_bytes = sum.value,
                                            !.mdia = child.res.value],
                              child |-> [start |-> r.pos,
                                         fourcc |-> head.res.value.fourcc,
                                         size |-> head.res.value.size,
                                         end |-> child.reader.pos]]),
                  reader |-> child.reader]
          : child \in {FindChild(head.reader, head.res.value, locals.mdia,
                                   checks)},
            sum \in {u64_add(locals.parsed_bytes, head.res.value.size.len,
                             checks)}} : TRUE
      : head \in {parse_head(r, checks)}} : TRUE

\* while parsed_bytes < size.content_len(), lines 17 and 47.
TrakLoopGuard(locals) == BnLt(locals.parsed_bytes, content_len(locals.size))

---------------------------------------------------------------------------
(* The track atom as a state machine: a track atom is laid out from its    *)
(* children, whose declared lengths may differ from the bytes they hold;   *)
(* the caller reads its head and calls parse_atom or find_atom, whose      *)
(* loop takes one child per step.                                          *)

\* Most children of the track atom.
MaxChildren == 2
\* By how many bytes a malformed child over-reports its content.
Overshoot == 4

\* An atom of no content.
EmptyAtom(fourcc) == <<0, 0, 0, 8>> \o fourcc

\* The content a child holds when it holds any: a media atom holds a media
\* header atom, other atoms hold zeros.
Payload(fourcc) == IF fourcc = MEDIA THEN EmptyAtom(MEDIA_HEADER) ELSE Zeros(8)

\* The children laid out.  form is how the head gives the size: "short"
\* (32 bits), "ext" (size 1 and 64 bits), "zero" (size 0: to the end of the
\* stream) or "huge" (extended size 2^64 - 1); declared is the content
\* length the head claims, payload the content present.
ChildKinds ==
    UNION {
        {[fourcc |-> f, form |-> form, payload |-> <<>>, declared |-> 0] :
            form \in {"short", "ext"}}
        \cup {[fourcc |-> f, form |-> "short", payload |-> <<>>,
                declared |-> Overshoot]}
        \cup {[fourcc |-> f, form |-> "short", payload |-> Payload(f),
                declared |-> 0]}
        \cup {[fourcc |-> f, form |-> form, payload |-> Payload(f), declared |-> d] :
            form \in {"short", "ext"}, d \in {8, 8 + Overshoot}}
        \cup {[fourcc |-> f, form |-> "zero", payload |-> p, declared |-> Len(p)] :
            p \in {<<>>, Payload(f)}}
        \cup {[fourcc |-> f, form |-> "huge", payload |-> <<>>, declared |-> 0]}
      : f \in {MEDIA, FREE}}

\* A child that is skipped and whose extended size is 2^64 - 8: its content
\* length as i64 is -24, and its length added to 8 is 2^64.
BackKinds == {[fourcc |-> FREE, form |-> "back", payload |-> <<>>, declared |-> 0]}

\* The kinds of child that are skipped, none of them a media atom.
SkippedKinds == {c \in ChildKinds : c.fourcc = FREE} \cup BackKinds

\* Most turns of a loop the model follows; a loop that ends ends in fewer.
MaxTurns == 6

ChildBytes(c) ==
    CASE c.form = "short" ->
            u32_to_be_bytes(8 + c.declared) \o c.fourcc \o c.payload
      [] c.form = "ext" ->
            <<0, 0, 0, 1>> \o c.fourcc
                \o u64_to_be_bytes(BnOfInt(16 + c.declared)) \o c.payload
      [] c.form = "zero" -> <<0, 0, 0, 0>> \o c.fourcc \o c.payload
      [] c.form = "huge" ->
            <<0, 0, 0, 1>> \o c.fourcc
                \o <<255, 255, 255, 255, 255, 255, 255, 255>> \o c.payload
      [] c.form = "back" ->
            <<0, 0, 0, 1>> \o c.fourcc
                \o <<255, 255, 255, 255, 255, 255, 255, 248>> \o c.payload

TrakContent(children) ==
    Concat([i \in 1..Len(children) |-> ChildBytes(children[i])])

InitTrak ==
    /\ pc = "trak"
    /\ data = NoData
    /\ measured = None
    /\ writer = <<>>
    /\ loop = None
    /\ visited = <<>>
    /\ result = None
    /\ \E children \in SeqsUpTo(ChildKinds, MaxChildren)
                          \cup SeqsUpTo(SkippedKinds, MaxChildren) :
       \E trailing \in {<<>>, EmptyAtom(USER_DATA)} :
       \E mode \in {"parse", "find"}, checks \in BOOLEAN :
          LET content == TrakContent(children) IN
          /\ reader = Stream(u32_to_be_bytes(8 + Len(content)) \o TRACK
                                \o content \o trailing)
          /\ args = [kind |-> "trak", mode |-> mode, checks |-> checks,
                     children |-> children, trailing |-> trailing,
                     content_start |-> 8, content_len |-> Len(content)]

\* The caller reads the head of the track atom and calls parse_atom or
\* find_atom with its size; the locals are set up (lines 14-15, 43-45).
TrakEnter ==
    /\ pc = "trak"
    /\ \E head \in {parse_head(reader, args.checks)} :
       /\ head.res.kind = "Ok"
       /\ reader' = head.reader
       /\ loop' = [size |-> head.res.value.size,
                   parsed_bytes |-> <<>>,
                   mdia |-> None,
                   bounds |-> IF args.mode = "find"
                              THEN find_bounds(head.reader, head.res.value.size)
                              ELSE None]
    /\ pc' = "trak_loop"
    /\ UNCHANGED <<data, measured, writer, args, visited, result>>

\* One turn of the loop of Trak::parse_atom.
ParseIterate ==
    /\ pc = "trak_loop" /\ args.mode = "parse"
    /\ TrakLoopGuard(loop)
    /\ Len(visited) < MaxTurns
    /\ \E turn \in {ParseIteration(reader, loop, args.checks)} :
       /\ reader' = turn.reader
       /\ IF turn.res.kind = "Ok"
          THEN /\ loop' = turn.res.value.locals
               /\ visited' = Append(visited, turn.res.value.child)
               /\ UNCHANGED <<pc, result>>
          ELSE /\ result' = turn.res
               /\ pc' = "trak_done"
               /\ UNCHANGED <<loop, visited>>
    /\ UNCHANGED <<data, measured, writer, args>>

\* Trak::parse_atom returns Ok(trak), line 30.
ParseReturn ==
    /\ pc = "trak_loop" /\ args.mode = "parse"
    /\ ~TrakLoopGuard(loop)
    /\ result' = Ok([mdia |-> loop.mdia])
    /\ pc' = "trak_done"
    /\ UNCHANGED <<data, measured, writer, reader, args, loop, visited>>

\* One turn of the loop of Trak::find_atom.
FindIterate ==
    /\ pc = "trak_loop" /\ args.mode = "find"
    /\ TrakLoopGuard(loop)
    /\ Len(visited) < MaxTurns
    /\ \E turn \in {FindIteration(reader, loop, args.checks)} :
       /\ reader' = turn.reader
       /\ IF turn.res.kind = "Ok"
          THEN /\ loop' = turn.res.value.locals
               /\ visited' = Append(visited, turn.res.value.child)
               /\ UNCHANGED <<pc, result>>
          ELSE /\ result' = turn.res
               /\ pc' = "trak_done"
               /\ UNCHANGED <<loop, visited>>
    /\ UNCHANGED <<data, measured, writer, args>>

\* Trak::find_atom returns Ok(Self::Bounds { bounds, mdia }), line 60.
FindReturn ==
    /\ pc = "trak_loop" /\ args.mode = "find"
    /\ ~TrakLoopGuard(loop)
    /\ result' = Ok([bounds |-> loop.bounds, mdia |-> loop.mdia])
    /\ pc' = "trak_done"
    /\ UNCHANGED <<data, measured, writer, reader, args, loop, visited>>

NextTrak ==
    TrakEnter \/ ParseIterate \/ ParseReturn \/ FindIterate \/ FindReturn

SpecTrak == InitTrak /\ [][NextTrak]_vars

\* No stream of the model holds a head whose declared size is below its
\* header length.
HeadsAreValid ==
    pc = "trak_done" =>
        ~(result.kind = "Err" /\ result.error.kind = "InvalidHead")

---------------------------------------------------------------------------
(* The track atom's claims.                                                *)

TrakEnd == args.content_start + args.content_len

\* Where child i starts in the content of the track atom as laid out.
ChildOffset(children, i) == Len(TrakContent(SubSeq(children, 1, i - 1)))

ChildHeadLen(c) == IF c.form \in {"ext", "huge", "back"} THEN 16 ELSE 8

\* Child i is well formed: it declares the content it holds; an atom that
\* runs to the end of the stream is well formed where the stream ends with it.
WellFormedChild(i) ==
    LET c == args.children[i] IN
    \/ c.form \in {"short", "ext"} /\ c.declared = Len(c.payload)
    \/ c.form = "zero" /\ i = Len(args.children) /\ args.trailing = <<>>

WellFormed == \A i \in 1..Len(args.children) : WellFormedChild(i)

\* Child i, the first malformed one, declares a content length larger than
\* what is left of the parent's content after its head.
OverBudget(i) ==
    LET c == args.children[i] IN
    /\ \A j \in 1..(i - 1) : WellFormedChild(j)
    /\ c.form \in {"short", "ext"}
    /\ ChildOffset(args.children, i) + ChildHeadLen(c) + c.declared
            > args.content_len

\* C2: when a child of the track atom declares a content length larger than
\* the parent's remaining budget, a call of Trak::parse_atom that returns
\* leaves the stream at the parent's own end offset.
C2_MalformedChildSize ==
    (/\ pc = "trak_done" /\ args.mode = "parse"
     /\ \E i \in 1..Len(args.children) : OverBudget(i)
     /\ result.kind = "Ok")
        => reader.pos = TrakEnd

\* C3: for a track atom whose children, MEDIA or not, are well formed and
\* fill its declared content length exactly, Trak::parse_atom returns
\* successfully, having gone over each child once, with the stream at the
\* parent's end offset, and holds a media atom iff a child is one.
C3_SkipInvariant ==
    (pc = "trak_done" /\ args.mode = "parse" /\ WellFormed) =>
        /\ result.kind = "Ok"
        /\ reader.pos = TrakEnd
        /\ Len(visited) = Len(args.children)
        /\ \A i \in 1..Len(visited) :
              /\ visited[i].start = args.content_start
                                        + ChildOffset(args.children, i)
              /\ visited[i].fourcc = args.children[i].fourcc
        /\ (result.value.mdia.kind = "Some")
              <=> (\E i \in 1..Len(args.children) :
                        args.children[i].fourcc = MEDIA)

\* A track atom of a media atom that holds a media header and a skipped
\* atom of eight bytes of content has been parsed.
C3_Witness ==
    /\ pc = "trak_done" /\ args.mode = "parse" /\ WellFormed
    /\ Len(args.children) = 2
    /\ args.children[1].fourcc = MEDIA /\ args.children[1].payload # <<>>
    /\ args.children[2].fourcc = FREE /\ args.children[2].payload # <<>>
    /\ args.trailing # <<>>
    /\ result.kind = "Ok"
    /\ reader.pos = TrakEnd

\* The visited children lie one after another from the start of the
\* parent's content.
RECURSIVE Contiguous(_, _)
Contiguous(from, children) ==
    \/ children = <<>>
    \/ /\ Head(children).start = from
       /\ Contiguous(PosPlus(from, Head(children).size.len), Tail(children))

\* C4: when Trak::find_atom succeeds, the byte ranges of the children it
\* visited are contiguous from the start of the parent's content and their
\* lengths sum to the parent's declared content length exactly.
C4_BoundsCompleteness ==
    (pc = "trak_done" /\ args.mode = "find" /\ result.kind = "Ok") =>
        /\ loop.parsed_bytes = content_len(loop.size)
        /\ Contiguous(args.content_start, visited)
        /\ \A i \in 1..Len(visited) :
              PosPlus(visited[i].start, visited[i].size.len) <= TrakEnd

---------------------------------------------------------------------------
(* The two traversals of the track atom side by side: parse_atom and       *)
(* find_atom as whole calls, each applied to the same stream at the same   *)
(* content position.                                                       *)

\* The loop of parse_atom, lines 17-30, run to its return: the result, the
\* stream afterwards and the children gone over.
RECURSIVE ParseLoop(_, _, _, _)
ParseLoop(r, locals, seen, checks) ==
    IF ~TrakLoopGuard(locals)
    THEN [res |-> Ok([mdia |-> locals.mdia]), reader |-> r, visited |-> seen]
    ELSE CHOOSE out \in {
            IF turn.res.kind # "Ok"
            THEN [res |-> turn.res, reader |-> turn.reader, visited |-> seen]
            ELSE ParseLoop(turn.reader, turn.res.value.locals,
                           Append(seen, turn.res.value.child), checks)
          : turn \in {ParseIteration(r, locals, checks)}} : TRUE

\* Trak::parse_atom(reader, size), lines 13-31.
TrakParseAtom(r, size, checks) ==
    ParseLoop(r, [size |-> size, parsed_bytes |-> <<>>, mdia |-> None,
                  bounds |-> None], <<>>, checks)

\* The loop of find_atom, lines 47-60, run to its return.
RECURSIVE FindLoop(_, _, _, _)
FindLoop(r, locals, seen, checks) ==
    IF ~TrakLoopGuard(locals)
    THEN [res |-> Ok([bounds |-> locals.bounds, mdia |-> locals.mdia]),
          reader |-> r, visited |-> seen]
    ELSE CHOOSE out \in {
            IF turn.res.kind # "Ok"
            THEN [res |-> turn.res, reader |-> turn.reader, visited |-> seen]
            ELSE FindLoop(turn.reader, turn.res.value.locals,
                          Append(seen, turn.res.value.child), checks)
          : turn \in {FindIteration(r, locals, checks)}} : TRUE

\* Trak::find_atom(reader, size), lines 42-61.
TrakFindAtom(r, size, checks) ==
    FindLoop(r, [size |-> size, parsed_bytes |-> <<>>, mdia |-> None,
                 bounds |-> find_bounds(r, size)], <<>>, checks)

InitPair ==
    /\ pc = "pair"
    /\ data = NoData
    /\ measured = None
    /\ writer = <<>>
    /\ loop = None
    /\ visited = <<>>
    /\ result = None
    /\ \E children \in SeqsUpTo(ChildKinds, MaxChildren) :
       \E trailing \in {<<>>, EmptyAtom(USER_DATA)} :
       \E checks \in BOOLEAN :
          LET content == TrakContent(children) IN
          /\ reader = Stream(u32_to_be_bytes(8 + Len(content)) \o TRACK
                                \o content \o trailing)
          /\ args = [kind |-> "trak", mode |-> "both", checks |-> checks,
                     children |-> children, trailing |-> trailing,
                     content_start |-> 8, content_len |-> Len(content)]

\* The caller reads the head of the track atom.
PairEnter ==
    /\ pc = "pair"
    /\ \E head \in {parse_head(reader, args.checks)} :
       /\ head.res.kind = "Ok"
       /\ reader' = head.reader
       /\ loop' = [size |-> head.res.value.size]
    /\ pc' = "pair_at_content"
    /\ UNCHANGED <<data, measured, writer, args, visited, result>>

\* parse_atom and find_atom are each called on the stream as it is at the
\* start of the content; the stream is left where parse_atom leaves it.
TraverseBoth ==
    /\ pc = "pair_at_content"
    /\ \E parsed \in {TrakParseAtom(reader, loop.size, args.checks)},
          found \in {TrakFindAtom(reader, loop.size, args.checks)} :
       /\ result' = [parse |-> parsed, find |-> found]
       /\ reader' = parsed.reader
       /\ visited' = parsed.visited
    /\ pc' = "pair_done"
    /\ UNCHANGED <<data, measured, writer, args, loop>>

NextPair == PairEnter \/ TraverseBoth

SpecPair == InitPair /\ [][NextPair]_vars

C11_WitnessFailure ==
    /\ pc = "pair_done"
    /\ Len(result.find.visited) = 1
    /\ result.parse.res.kind = "Err"
    /\ result.find.res.kind = "Err"

\* The loop taken one turn at a time ends as the whole call does.
RunsAgree ==
    pc = "trak_done" =>
        \E whole \in {IF args.mode = "parse"
                      THEN TrakParseAtom([reader EXCEPT !.pos = args.content_start],
                                         loop.size, args.checks)
                      ELSE TrakFindAtom([reader EXCEPT !.pos = args.content_start],
                                        loop.size, args.checks)} :
            /\ whole.res = result
            /\ whole.reader = reader
            /\ whole.visited = visited

---------------------------------------------------------------------------
(* remaining_stream_len as a state machine: a stream at some position, on  *)
(* which the function is called.                                           *)

\* Most bytes of a stream remaining_stream_len is called on.
MaxStream == 4
\* How far past the end of the stream the starting position may lie.
PastEnd == 1

InitRemaining ==
    /\ pc = "remaining"
    /\ data = NoData
    /\ measured = None
    /\ writer = <<>>
    /\ loop = None
    /\ visited = <<>>
    /\ result = None
    /\ \E bytes \in SeqsUpTo({0, 255}, MaxStream) :
       \E p \in 0..(Len(bytes) + PastEnd), checks \in BOOLEAN :
          /\ reader = [bytes |-> bytes, pos |-> p]
          /\ args = [kind |-> "remaining", bytes |-> bytes, p |-> p,
                     checks |-> checks]

\* remaining_stream_len(&mut reader)
RemainingCall ==
    /\ pc = "remaining"
    /\ \E out \in {remaining_stream_len(reader, args.checks)} :
       /\ result' = out.res
       /\ reader' = out.reader
    /\ pc' = "remaining_done"
    /\ UNCHANGED <<data, measured, writer, args, loop, visited>>

NextRemaining == RemainingCall

SpecRemaining == InitRemaining /\ [][NextRemaining]_vars

\* C12: called at a position p not past the end of the stream,
\* remaining_stream_len returns the stream's length less p and leaves the
\* stream, its bytes untouched, at position p again.
C12_PositionRestored ==
    (pc = "remaining_done" /\ args.p <= Len(args.bytes)) =>
        /\ result = Ok(BnOfInt(Len(args.bytes) - args.p))
        /\ reader.pos = args.p
        /\ reader.bytes = args.bytes

\* The function was called in the middle of a stream.
C12_Witness ==
    /\ pc = "remaining_done"
    /\ 0 < args.p /\ args.p < Len(args.bytes)
    /\ result.kind = "Ok"
    /\ reader.pos = args.p

---------------------------------------------------------------------------
(* The end of the child loops.                                             *)

\* The header lengths of the children gone over, summed.
RECURSIVE HeadLenSum(_)
HeadLenSum(children) ==
    IF children = <<>> THEN 0
    ELSE head_len(Head(children).size) + HeadLenSum(Tail(children))

\* C13: the child loops of parse_atom and find_atom end for every stream
\* and declared size: a turn returns an error or adds at least the child's
\* header length to parsed_bytes, so that no more than content_len / 8 + 1
\* turns are taken and no child head is read twice.
C13_LoopTerminates ==
    pc \in {"trak_loop", "trak_done"} =>
        /\ BnLe(BnOfInt(HeadLenSum(visited)), loop.parsed_bytes)
        /\ Len(visited) <= args.content_len \div 8 + 1
        /\ \A i, j \in 1..Len(visited) :
              i # j => visited[i].start # visited[j].start

====
